---- MODULE Spec2Model ----
(***************************************************************************)
(* Review approval sessions of Review_Sense: the per-manager session maps  *)
(* of WhatsAppAgent (review_data, current_indices, review_states,          *)
(* last_command), the webhook handler, the message classifier and the      *)
(* review management tool of the agent, the ingestion that writes a        *)
(* session, and the two periodic checks.                                   *)
(*                                                                         *)
(* The handlers are coroutines on one event loop: a step of the model is   *)
(* the code between two awaits.  The ingestion awaits twice                *)
(* (asyncio.sleep(6), asyncio.sleep(20)).                                  *)
(***************************************************************************)
EXTENDS Integers, Sequences, FiniteSets, Bags, TLC

(***************************************************************************)
(* Bounds of the model.                                                    *)
(***************************************************************************)
MaxBatch == 2       \* reviews in one upstream batch of the session model
MaxFetch == 1       \* ingestion tasks of one manager in flight at the same time
MaxCursor == 3      \* cap on current_indices (skip/next never stops by itself)
MaxFilterBatch == 3 \* reviews in one batch of the rating filter model
MaxSentimentBatch == 2   \* reviews in one batch given to analyze_sentiment
MaxPipelineBatch == 3    \* reviews in one fetched batch of the pipeline model

(***************************************************************************)
(* Program constants.                                                      *)
(***************************************************************************)
DefaultMaxRating == 3   \* filter_reviews_by_rating(review_data, max_rating=3)
MaxStars == 5           \* review.get('rating') <= 5
SkipMaxLen == 5         \* len(message_lower) <= 5
ContinueMaxLen == 10    \* len(message_lower) < 10

Managers == {"m1", "m2"}

(***************************************************************************)
(* Text.  A message is a sequence of one-character strings, so that        *)
(* lower(), the substring tests and len() are computed as the code does.   *)
(***************************************************************************)
UpperAlpha == <<"A","B","C","D","E","F","G","H","I","J","K","L","M",
                "N","O","P","Q","R","S","T","U","V","W","X","Y","Z">>
LowerAlpha == <<"a","b","c","d","e","f","g","h","i","j","k","l","m",
                "n","o","p","q","r","s","t","u","v","w","x","y","z">>

LowerChar(c) ==
    IF \E i \in 1..26 : UpperAlpha[i] = c
    THEN LowerAlpha[CHOOSE i \in 1..26 : UpperAlpha[i] = c]
    ELSE c

Lower(s) == [i \in 1..Len(s) |-> LowerChar(s[i])]

Contains(s, t) ==
    \E i \in 1..(Len(s) - Len(t) + 1) : SubSeq(s, i, i + Len(t) - 1) = t

T_WELCOME == <<"W","E","L","C","O","M","E">>
T_APPROVE == <<"A","p","p","r","o","v","e">>
T_SKIP == <<"s","k","i","p">>
T_NEXT_ONE == <<"n","e","x","t"," ","o","n","e">>
T_SUMMARY == <<"s","u","m","m","a","r","y">>
T_CONTINUE == <<"c","o","n","t","i","n","u","e">>
T_FEEDBACK == <<"f","e","e","d","b","a","c","k">>
T_ADD_WARMTH == <<"a","d","d"," ","w","a","r","m","t","h">>
T_FETCH == <<"f","e","t","c","h"," ","r","e","v","i","e","w","s">>
T_AGENT_ADVICE == <<"a","g","e","n","t"," ","a","d","v","i","c","e">>
T_AGENT_ADVICE_US == <<"a","g","e","n","t","_","a","d","v","i","c","e">>
T_FETCH_ADVICE == <<"f","e","t","c","h"," ","r","e","v","i","e","w","s"," ",
                    "a","g","e","n","t"," ","a","d","v","i","c","e">>
T_EXIT == <<"E","x","i","t">>

K_fetch_reviews == <<"f","e","t","c","h"," ","r","e","v","i","e","w","s">>
K_get_reviews == <<"g","e","t"," ","r","e","v","i","e","w","s">>
K_agent_advice == <<"a","g","e","n","t"," ","a","d","v","i","c","e">>
K_agent_advice_us == <<"a","g","e","n","t","_","a","d","v","i","c","e">>
K_exit == <<"e","x","i","t">>
K_skip == <<"s","k","i","p">>
K_next == <<"n","e","x","t">>
K_summary == <<"s","u","m","m","a","r","y">>
K_continue == <<"c","o","n","t","i","n","u","e">>
K_start == <<"s","t","a","r","t">>
K_approve == <<"a","p","p","r","o","v","e">>
K_feedback == <<"f","e","e","d","b","a","c","k">>
K_please == <<"p","l","e","a","s","e">>

NoText == <<>>

\* Every text of the model.
AllTexts == {T_WELCOME, T_APPROVE, T_SKIP, T_NEXT_ONE, T_SUMMARY, T_CONTINUE,
             T_FEEDBACK, T_ADD_WARMTH, T_FETCH, T_AGENT_ADVICE, T_AGENT_ADVICE_US,
             T_FETCH_ADVICE, T_EXIT}

\* The messages a manager sends in the session model.
Messages == {T_WELCOME, T_APPROVE, T_SKIP, T_SUMMARY, T_FEEDBACK, T_ADD_WARMTH}

(***************************************************************************)
(* Review records.  id stands for the immutable text, author and time.     *)
(* A record that never went through an ingestion has no approval_status    *)
(* key ("unset").                                                          *)
(***************************************************************************)
NullRating == -1    \* rating None: extraction failed

Statuses == {"unset", "pending", "approved", "needs_revision"}

MkReview(i, r) ==
    [id |-> i, rating |-> r, approval_status |-> "unset", response |-> "draft",
     manager_feedback |-> NoText, revision_feedback |-> NoText]

\* The analyzed_reviews list of a batch whose ratings are rs.
MkReviews(rs) == [i \in 1..Len(rs) |-> MkReview(i, rs[i])]

RECURSIVE SeqsUpTo(_, _)
SeqsUpTo(S, n) ==
    IF n = 0 THEN {<<>>}
    ELSE LET shorter == SeqsUpTo(S, n - 1)
         IN  shorter \cup {Append(s, x) : s \in {t \in shorter : Len(t) = n - 1}, x \in S}

(***************************************************************************)
(* filter_reviews_by_rating (helper_functions.py).  int(None) raises       *)
(* TypeError; a missing rating reads as 0.                                 *)
(***************************************************************************)
RECURSIVE SelectSeq2(_, _)
SelectSeq2(s, max_rating) ==
    IF s = <<>> THEN <<>>
    ELSE IF Head(s).rating <= max_rating
         THEN <<Head(s)>> \o SelectSeq2(Tail(s), max_rating)
         ELSE SelectSeq2(Tail(s), max_rating)

FilterRaises(reviews) == \E i \in 1..Len(reviews) : reviews[i].rating = NullRating

FilteredReviewsMutant(reviews, max_rating) ==
    LET RECURSIVE Below(_)
        Below(s) == IF s = <<>> THEN <<>>
                    ELSE IF Head(s).rating < max_rating
                         THEN <<Head(s)>> \o Below(Tail(s))
                         ELSE Below(Tail(s))
    IN Below(reviews)

FilteredReviews(reviews, max_rating) == SelectSeq2(reviews, max_rating)

\* (filtered_data['analyzed_reviews'], removed_count)
filter_reviews_by_rating(reviews, max_rating) ==
    LET filtered == FilteredReviews(reviews, max_rating)
    IN  [analyzed_reviews |-> filtered,
         removed_count |-> Len(reviews) - Len(filtered)]


(***************************************************************************)
(* State.                                                                  *)
(*   preloaded_reviews  the module global of whatsapp_server.py: whether   *)
(*                      the startup preload filled it, and its counts; its *)
(*                      'json_result' is the object "pre" of store, or a   *)
(*                      JSON value that is not an object (NonDict)         *)
(*   store              the heap: the analyzed_reviews list of each review *)
(*                      data object.  "pre" is the preloaded object, which *)
(*                      every session built from it shares; the object a   *)
(*                      manager's own fetch or initialize creates is named *)
(*                      after the manager                                  *)
(*   review_data        WhatsAppAgent.review_data: manager -> object, or   *)
(*                      NonDict                                            *)
(*   current_indices, review_states, last_command, in_agent_advice_mode,   *)
(*   active_sessions    the maps of WhatsAppAgent, keyed by manager        *)
(*   tasks              fetch_reviews_background coroutines in flight (a   *)
(*                      bag of their positions and locals)                 *)
(*   last               what the last step was and what it sent            *)
(* WhatsAppAgent.__init__ (whatsapp_agent.py 28-34) creates no             *)
(* last_activity map, so the state holds none.                             *)
(***************************************************************************)
VARIABLES preloaded_reviews, store, review_data, current_indices, review_states,
          last_command, in_agent_advice_mode, active_sessions, tasks, last

vars == <<preloaded_reviews, store, review_data, current_indices, review_states,
          last_command, in_agent_advice_mode, active_sessions, tasks, last>>

NoObj == "none"
ObjIds == {"pre"} \cup Managers

\* What json.loads gives for upstream output that is JSON but no object: a
\* list (of reviews, or empty) or None.  filter_reviews_by_rating returns it
\* as it is with removed_count 0 (helper_functions.py 18-19); it has no .get
\* and nothing ever writes into it.
NonDict == "non_dict"
Absent == -1        \* no entry in current_indices

\* Ratings of the session model: the two values around the default threshold.
RatingSample == {3, 4}
UpstreamBatches == SeqsUpTo(RatingSample, MaxBatch)

\* Ratings of the data handed to the tool's initialize action, which is not
\* filtered: a queued rating, or none.
ToolRatingSample == {3, NullRating}
ToolBatches == SeqsUpTo(ToolRatingSample, MaxBatch)
RevisedResponses == {"revised"}

\* self.current_indices.get(user_id, 0)
Cursor(m) == IF current_indices[m] = Absent THEN 0 ELSE current_indices[m]

\* user_id in self.review_data
HasSession(m) == review_data[m] # NoObj

\* self.review_data[user_id].get(...) raises AttributeError: the value kept
\* for the manager is no dict.
GetRaises(m) == review_data[m] = NonDict

\* self.review_data.get(user_id, {}).get('analyzed_reviews', []), where it
\* does not raise; a value that is no dict holds no analyzed_reviews.
Reviews(m) == IF review_data[m] \in ObjIds THEN store[review_data[m]] ELSE <<>>

NoOut == [kind |-> "none", idx |-> -1, id |-> -1, response |-> "none",
          total |-> -1, approved |-> -1, pending |-> -1, high |-> -1,
          needs_revision |-> -1, completed |-> FALSE, idle |-> -1,
          welcome |-> FALSE]

\* What an ingestion found in the maps before it wrote them; NoPrior for a
\* step that is no ingestion.
NoPrior == [current_indices |-> Absent, review_states |-> "none"]

Prior(m) == [current_indices |-> current_indices[m], review_states |-> review_states[m]]

NoLast == [op |-> "init", m |-> "none", text |-> NoText, intent |-> "none",
           cursor |-> -1, out |-> NoOut, raised |-> FALSE, prior |-> NoPrior]

SetStatusMutant(reviews, i, status) ==
    [reviews EXCEPT ![i].approval_status = status, ![i].rating = 5]

SetStatus(reviews, i, status) == [reviews EXCEPT ![i].approval_status = status]

SetAllPendingMutant(reviews) == reviews

\* for review in reviews: review['approval_status'] = 'pending'
SetAllPending(reviews) ==
    [i \in 1..Len(reviews) |-> [reviews[i] EXCEPT !.approval_status = "pending"]]

Count(reviews, status) ==
    Cardinality({i \in 1..Len(reviews) : reviews[i].approval_status = status})

(***************************************************************************)
(* manage_review_workflow(action="summarize"): the counts of the session,  *)
(* each counted from the approval_status of the items.                     *)
(***************************************************************************)
Summarize(m) ==
    [total |-> Len(Reviews(m)),
     approved |-> Count(Reviews(m), "approved"),
     pending |-> Count(Reviews(m), "pending"),
     needs_revision |-> Count(Reviews(m), "needs_revision"),
     current_index |-> Cursor(m),
     completed |-> review_states[m] = "completed"]

(***************************************************************************)
(* send_review_for_approval: the message presenting reviews[review_idx],   *)
(* or nothing (False) when review_idx is past the end.  The stars of the   *)
(* message are int(review.get('rating', 3)) long: for a record whose       *)
(* rating is None int() raises TypeError before anything is sent.          *)
(***************************************************************************)
ReviewMessage(reviews, review_idx) ==
    IF review_idx < Len(reviews)
    THEN IF reviews[review_idx + 1].rating = NullRating
         THEN [NoOut EXCEPT !.kind = "type_error"]
         ELSE [NoOut EXCEPT !.kind = "review", !.idx = review_idx,
                            !.id = reviews[review_idx + 1].id,
                            !.response = reviews[review_idx + 1].response]
    ELSE NoOut


(***************************************************************************)
(* process_whatsapp_message(user_id, message_text): the intent it returns  *)
(* and the maps as it leaves them.  The branches are tried in the order of *)
(* the code; an "approve" or a captured feedback whose cursor is past the  *)
(* end falls out of the chain to the CONVERSATION return.  The function    *)
(* has no try: in the two branches that read the reviews (lines 175, 185)  *)
(* a session value that is no dict raises AttributeError out of it, which  *)
(* is the intent "raise" here, with nothing written.                       *)
(***************************************************************************)
Classified(intent, ci, st, lc, adv) ==
    [intent |-> intent, ci |-> ci, st |-> st, lc |-> lc, adv |-> adv]

Unchanged(intent) ==
    Classified(intent, current_indices, store, last_command, in_agent_advice_mode)

\* The tests process_whatsapp_message makes on message_lower, as the sets of
\* the texts that pass them.
IsExit == {t \in AllTexts : Lower(t) = K_exit}

\* any(trigger in message_lower for trigger in ['fetch reviews', 'get reviews'])
IsFetch ==
    {t \in AllTexts : Contains(Lower(t), K_fetch_reviews) \/ Contains(Lower(t), K_get_reviews)}

\* message_lower in ["agent advice", "agent_advice"] or "agent advice" in message_lower
IsAgentAdvice ==
    {t \in AllTexts : \/ Lower(t) \in {K_agent_advice, K_agent_advice_us}
                      \/ Contains(Lower(t), K_agent_advice)}

\* any(cmd in message_lower for cmd in ['skip', 'next']) and (len(message_lower) <= 5)
IsSkip ==
    {t \in AllTexts : /\ Contains(Lower(t), K_skip) \/ Contains(Lower(t), K_next)
                      /\ Len(Lower(t)) <= SkipMaxLen}

\* any(cmd in message_lower for cmd in ['summary'])
IsSummary == {t \in AllTexts : Contains(Lower(t), K_summary)}

\* any(cmd in message_lower for cmd in ['continue', 'start']) and (len(message_lower) < 10)
IsContinue ==
    {t \in AllTexts : /\ Contains(Lower(t), K_continue) \/ Contains(Lower(t), K_start)
                      /\ Len(Lower(t)) < ContinueMaxLen}

\* "approve" in message_lower
IsApprove == {t \in AllTexts : Contains(Lower(t), K_approve)}

\* any(cmd in message_lower for cmd in ['feedback', 'please'])
IsFeedbackRequest ==
    {t \in AllTexts : Contains(Lower(t), K_feedback) \/ Contains(Lower(t), K_please)}

\* The skip branch: current_indices[user_id] = current_idx + 1
SkipTo(m) == Cursor(m) + 1

\* The approve branch, with current_idx < len(reviews).
ApproveMark(m) == [store EXCEPT ![review_data[m]] = SetStatus(@, Cursor(m) + 1, "approved")]

\* The feedback branch, with current_idx < len(reviews).
FeedbackMark(m, message_text) ==
    [store EXCEPT ![review_data[m]] =
        [@ EXCEPT ![Cursor(m) + 1].approval_status = "needs_revision",
                  ![Cursor(m) + 1].manager_feedback = message_text]]

\* if current_idx < len(reviews): the guard of the two branches that index
\* reviews[current_idx].
InQueue(current_idx, reviews) == current_idx < Len(reviews)

\* hasattr(self, 'in_agent_advice_mode') and self.in_agent_advice_mode.get(user_id, False)
InAdviceModeMutant(m) == FALSE

InAdviceMode(m) == in_agent_advice_mode[m]

process_whatsapp_message(m, message_text) ==
    LET reviews == Reviews(m)
        current_idx == Cursor(m)
    IN
    IF InAdviceMode(m)
    THEN IF message_text \in IsExit
         THEN Classified("AGENT_ADVICE:exit", current_indices, store, last_command,
                         [in_agent_advice_mode EXCEPT ![m] = FALSE])
         ELSE Unchanged("AGENT_ADVICE")
    ELSE IF message_text \in IsFetch
    THEN Unchanged("COMMAND:FETCH_REVIEWS")
    ELSE IF message_text \in IsAgentAdvice
    THEN Classified("COMMAND:AGENT_ADVICE", current_indices, store, last_command,
                    [in_agent_advice_mode EXCEPT ![m] = TRUE])
    ELSE IF ~HasSession(m)
    THEN Unchanged("CONVERSATION")
    ELSE IF review_states[m] = "completed"
    THEN IF message_text \in IsSummary
         THEN Unchanged("COMMAND:SHOW_SUMMARY")
         ELSE Unchanged("COMMAND:ALL_COMPLETED")
    ELSE IF message_text \in IsSkip
    THEN Classified("COMMAND:NEXT_REVIEW", [current_indices EXCEPT ![m] = SkipTo(m)],
                    store, last_command, in_agent_advice_mode)
    ELSE IF message_text \in IsSummary
    THEN Unchanged("COMMAND:SHOW_SUMMARY")
    ELSE IF message_text \in IsContinue
    THEN Unchanged("COMMAND:CONTINUE_REVIEWS")
    ELSE IF message_text \in IsApprove
    THEN IF GetRaises(m)
         THEN Unchanged("raise")
         ELSE IF InQueue(current_idx, reviews)
         THEN Classified("APPROVED:NEXT_REVIEW", current_indices, ApproveMark(m),
                         [last_command EXCEPT ![m] = "approve"], in_agent_advice_mode)
         ELSE Unchanged("CONVERSATION")
    ELSE IF last_command[m] = "feedback"
    THEN IF GetRaises(m)
         THEN Unchanged("raise")
         ELSE IF InQueue(current_idx, reviews)
         THEN Classified("REVISION", current_indices, FeedbackMark(m, message_text),
                         [last_command EXCEPT ![m] = "none"], in_agent_advice_mode)
         ELSE Unchanged("CONVERSATION")
    ELSE IF message_text \in IsFeedbackRequest
    THEN Classified("FEEDBACK_NEEDED", current_indices, store,
                    [last_command EXCEPT ![m] = "feedback"], in_agent_advice_mode)
    ELSE Unchanged("UNCLEAR")

(***************************************************************************)
(* whatsapp_webhook.  A delivery records the sender in active_sessions     *)
(* (line 121) and then writes whatsapp_system.last_activity[From] (line    *)
(* 124).  WhatsAppAgent has no last_activity, so the write raises          *)
(* AttributeError out of the handler: the classification (line 129) and    *)
(* the branches on its intent (lines 134-326) are not reached, nothing is  *)
(* sent and no background task is queued.                                  *)
(***************************************************************************)
Step(op, m, intent, cursor, out, raised) ==
    [op |-> op, m |-> m, text |-> NoText, intent |-> intent, cursor |-> cursor,
     out |-> out, raised |-> raised, prior |-> NoPrior]

\* A step that was given the message text.
Heard(text, step) == [step EXCEPT !.text = text]

\* A step that wrote manager m's session over what the maps held for m.
Over(m, step) == [step EXCEPT !.prior = Prior(m)]

whatsapp_webhook(m, text) ==
    /\ active_sessions' = [active_sessions EXCEPT ![m] = TRUE]
    /\ last' = Heard(text, Step("webhook", m, "none", Cursor(m), NoOut, TRUE))
    /\ UNCHANGED <<preloaded_reviews, store, review_data, current_indices, review_states,
                   last_command, in_agent_advice_mode, tasks>>

(***************************************************************************)
(* tools[1] (ProcessWhatsAppTool) run on its own: the classification of a  *)
(* message with the writes it makes, or the exception it raises.           *)
(***************************************************************************)
ToolProcessMessage(m, text) ==
    LET r == process_whatsapp_message(m, text) IN
    /\ r.intent = "COMMAND:NEXT_REVIEW" => Cursor(m) < MaxCursor
    /\ current_indices' = r.ci
    /\ store' = r.st
    /\ last_command' = r.lc
    /\ in_agent_advice_mode' = r.adv
    /\ last' = Heard(text, Step("tool_process_message", m, r.intent, Cursor(m), NoOut,
                                r.intent = "raise"))
    /\ UNCHANGED <<preloaded_reviews, review_data, review_states, active_sessions, tasks>>

(***************************************************************************)
(* fetch_reviews_background.  Three steps, cut at its two awaits.  The one *)
(* caller that is reached is check_and_send_initial_message, which awaits  *)
(* it directly: the first step is part of that check.                      *)
(***************************************************************************)
Task(pc, total, high, pending) ==
    [pc |-> pc, total |-> total, high |-> high, pending |-> pending]

Retask(m, old, new) == [tasks EXCEPT ![m] = (@ (-) SetToBag({old})) (+) SetToBag({new})]

Untask(m, old) == [tasks EXCEPT ![m] = @ (-) SetToBag({old})]

\* Lines 354-363: the session is written and every queued review is set
\* pending.
InitSessionMutant(m, obj, reviews) ==
    /\ review_data' = [review_data EXCEPT ![m] = obj]
    /\ current_indices' = current_indices
    /\ review_states' = review_states
    /\ store' = [store EXCEPT ![obj] = SetAllPending(reviews)]

InitSession(m, obj, reviews) ==
    /\ review_data' = [review_data EXCEPT ![m] = obj]
    /\ current_indices' = [current_indices EXCEPT ![m] = 0]
    /\ review_states' = [review_states EXCEPT ![m] = "initialized"]
    /\ store' = [store EXCEPT ![obj] = SetAllPending(reviews)]

\* Lines 365-371: total_reviews, high_rated_reviews and pending_reviews, kept
\* across the awaits by the coroutine, which is now in asyncio.sleep(6).
Fetching(m, total_reviews, removed_count) ==
    [tasks EXCEPT ![m] = @ (+) SetToBag({Task("sleep6", total_reviews, removed_count,
                                              total_reviews - removed_count)})]

\* What check_and_send_initial_message has sent when the first step of the
\* ingestion ends: the welcome (lines 473-482) and, when the ingestion raised,
\* the error notice after it (kind is the last message sent).
Welcomed(kind) == [NoOut EXCEPT !.kind = kind, !.welcome = TRUE]

\* Lines 330-371 and, where the try raises, the except branch of 403-412.
\* With the preloaded result every manager's session is the same json_result
\* object; without it run_review_workflow returns a batch (of status success,
\* or of status error and no reviews), which is filtered.  When the result,
\* preloaded or fetched now, is JSON but no object, lines 355-357 write it as
\* the manager's session with cursor 0 and 'initialized', line 360 raises
\* AttributeError, the except branch sends the error notice and the coroutine
\* ends there.  When the fetch or the filter raises, the except branch sends
\* the notice with nothing written.
FetchStart(m) ==
    \/ /\ preloaded_reviews.loaded
       /\ preloaded_reviews.json_result = "pre"
       /\ InitSession(m, "pre", store["pre"])
       /\ tasks' = Fetching(m, preloaded_reviews.total, preloaded_reviews.removed_count)
       /\ last' = Over(m, Step("initial_check", m, "preloaded", 0,
                               Welcomed("welcome"), FALSE))
    \/ \E status \in {"success", "error"}, rs \in UpstreamBatches :
          LET reviews_original == IF status = "error" THEN <<>> ELSE MkReviews(rs)
              f == filter_reviews_by_rating(reviews_original, DefaultMaxRating)
          IN
          /\ ~preloaded_reviews.loaded
          /\ ~FilterRaises(reviews_original)
          /\ InitSession(m, m, f.analyzed_reviews)
          /\ tasks' = Fetching(m, Len(reviews_original), f.removed_count)
          /\ last' = Over(m, Step("initial_check", m, status, 0,
                                  Welcomed("welcome"), FALSE))
    \/ /\ preloaded_reviews.loaded => preloaded_reviews.json_result = NonDict
       /\ review_data' = [review_data EXCEPT ![m] = NonDict]
       /\ current_indices' = [current_indices EXCEPT ![m] = 0]
       /\ review_states' = [review_states EXCEPT ![m] = "initialized"]
       /\ UNCHANGED <<store, tasks>>
       /\ last' = Over(m, Step("initial_check", m, "not_object", 0,
                               Welcomed("fetch_error"), TRUE))
    \/ /\ ~preloaded_reviews.loaded
       /\ UNCHANGED <<store, review_data, current_indices, review_states, tasks>>
       /\ last' = Step("initial_check", m, "raise", -1,
                       Welcomed("fetch_error"), TRUE)

\* Lines 373-390: the start message with the three counts.
FetchAnnounce(m) ==
    \E t \in BagToSet(tasks[m]) :
        /\ t.pc = "sleep6"
        /\ tasks' = Retask(m, t, [t EXCEPT !.pc = "sleep20"])
        /\ last' = Step("announce", m, "none", -1,
                        [NoOut EXCEPT !.kind = "review_start", !.total = t.total,
                                      !.high = t.high, !.pending = t.pending], FALSE)
        /\ UNCHANGED <<preloaded_reviews, store, review_data, current_indices,
                       review_states, last_command, in_agent_advice_mode,
                       active_sessions>>

\* Lines 393-412: the first review of the session as it is now, or the
\* all-high-ratings message and review_states = 'completed'.  A TypeError of
\* send_review_for_approval, or the AttributeError of its line 416 for a
\* session value that is no dict, is caught by the except branch, which sends
\* the error notice.
FetchFirst(m) ==
    \E t \in BagToSet(tasks[m]) :
        LET shown == ReviewMessage(Reviews(m), 0) IN
        /\ t.pc = "sleep20"
        /\ tasks' = Untask(m, t)
        /\ IF t.pending > 0
           THEN /\ review_states' = review_states
                /\ IF GetRaises(m) \/ shown.kind = "type_error"
                   THEN last' = Step("first", m, "none", -1,
                                     [NoOut EXCEPT !.kind = "fetch_error"], TRUE)
                   ELSE last' = Step("first", m, "none", -1, shown, FALSE)
           ELSE /\ review_states' = [review_states EXCEPT ![m] = "completed"]
                /\ last' = Step("first", m, "none", -1,
                                [NoOut EXCEPT !.kind = "all_high"], FALSE)
        /\ UNCHANGED <<preloaded_reviews, store, review_data, current_indices,
                       last_command, in_agent_advice_mode, active_sessions>>

(***************************************************************************)
(* The two periodic jobs of the scheduler.  Both go through the managers   *)
(* of active_sessions; an action below is the job's pass over one manager. *)
(***************************************************************************)
NeedsInitialMessageMutant(m) == TRUE

\* if review_state != 'initialized'
NeedsInitialMessage(m) == review_states[m] # "initialized"

\* check_and_send_initial_message: the welcome, then fetch_reviews_background
\* up to its first await; the rest of that ingestion continues as FetchAnnounce
\* and FetchFirst.
check_and_send_initial_message(m) ==
    /\ active_sessions[m]
    /\ IF NeedsInitialMessage(m)
       THEN /\ BagCardinality(tasks[m]) < MaxFetch
            /\ FetchStart(m)
       ELSE /\ UNCHANGED <<store, review_data, current_indices, review_states, tasks>>
            /\ last' = Step("initial_check", m, "none", -1, NoOut, FALSE)
    /\ UNCHANGED <<preloaded_reviews, last_command, in_agent_advice_mode, active_sessions>>

\* if whatsapp_system.review_states.get(phone) == 'initialized'
ReminderConsidered(m) == review_states[m] = "initialized"

CheckInactiveSessionsMutant(m) ==
    /\ active_sessions[m]
    /\ last' = Step("inactive_check", m, "none", -1, [NoOut EXCEPT !.kind = "reminder"], FALSE)
    /\ UNCHANGED <<preloaded_reviews, store, review_data, current_indices, review_states,
                   last_command, in_agent_advice_mode, active_sessions, tasks>>

\* check_inactive_sessions for one manager.  For a manager whose lifecycle is
\* initialized it reads whatsapp_system.last_activity (line 505), which
\* WhatsAppAgent does not have: AttributeError is raised out of the job before
\* the idle time is compared and send_review_reminder is not reached.
check_inactive_sessions(m) ==
    /\ active_sessions[m]
    /\ last' = Step("inactive_check", m, "none", -1, NoOut, ReminderConsidered(m))
    /\ UNCHANGED <<preloaded_reviews, store, review_data, current_indices, review_states,
                   last_command, in_agent_advice_mode, active_sessions, tasks>>

(***************************************************************************)
(* manage_review_workflow: the actions of the review management tool       *)
(* other than summarize (above) and export (which reads only).             *)
(***************************************************************************)
ToolOut(kind) == [NoOut EXCEPT !.kind = kind]

\* action == "initialize": data is parsed into a new object, whose records carry
\* the approval_status they were serialized with (carried); an error status or
\* an empty list returns an error and writes nothing, and so does data that is
\* JSON but no object (status "not_object"): review_data.get of line 232
\* raises and the except of the tool returns the error.
ToolInitialize(m, status, rs, carried) ==
    LET parsed == MkReviews(rs)
        reviews == [i \in 1..Len(parsed) |-> [parsed[i] EXCEPT !.approval_status = carried]]
    IN
    /\ IF status \in {"error", "not_object"} \/ reviews = <<>>
       THEN /\ UNCHANGED <<review_data, current_indices, review_states, store>>
            /\ last' = Step("tool_initialize", m, status, -1, ToolOut("tool_error"), FALSE)
       ELSE /\ InitSession(m, m, reviews)
            /\ last' = Over(m, Step("tool_initialize", m, status, 0,
                                    [NoOut EXCEPT !.kind = "tool_success",
                                                  !.total = Len(reviews)], FALSE))
    /\ UNCHANGED <<preloaded_reviews, last_command, in_agent_advice_mode,
                   active_sessions, tasks>>

\* action == "get_next".  For a session value that is no dict line 275 raises
\* and the except of the tool returns an error.
ToolGetNext(m) ==
    LET current_idx == Cursor(m)
        reviews == Reviews(m)
    IN
    /\ IF ~HasSession(m)
       THEN /\ review_states' = review_states
            /\ last' = Step("tool_get_next", m, "none", -1, ToolOut("tool_error"), FALSE)
       ELSE IF review_states[m] = "completed"
       THEN /\ review_states' = review_states
            /\ last' = Step("tool_get_next", m, "none", -1, ToolOut("tool_completed"), FALSE)
       ELSE IF GetRaises(m)
       THEN /\ review_states' = review_states
            /\ last' = Step("tool_get_next", m, "none", -1, ToolOut("tool_error"), FALSE)
       ELSE IF current_idx >= Len(reviews)
       THEN /\ review_states' = [review_states EXCEPT ![m] = "completed"]
            /\ last' = Step("tool_get_next", m, "none", current_idx,
                            ToolOut("tool_completed"), FALSE)
       ELSE /\ review_states' = review_states
            /\ last' = Step("tool_get_next", m, "none", current_idx,
                            [NoOut EXCEPT !.kind = "tool_review", !.idx = current_idx + 1,
                                          !.total = Len(reviews),
                                          !.id = reviews[current_idx + 1].id,
                                          !.response = reviews[current_idx + 1].response],
                            FALSE)
    /\ UNCHANGED <<preloaded_reviews, store, review_data, current_indices, last_command,
                   in_agent_advice_mode, active_sessions, tasks>>

\* action == "revise".  For a session value that is no dict line 302 raises
\* and the except of the tool returns an error.
ToolRevise(m, data) ==
    LET current_idx == Cursor(m)
        reviews == Reviews(m)
    IN
    /\ IF ~HasSession(m) \/ GetRaises(m) \/ current_idx >= Len(reviews)
       THEN /\ store' = store
            /\ last' = Step("tool_revise", m, "none", -1, ToolOut("tool_error"), FALSE)
       ELSE /\ store' = [store EXCEPT ![review_data[m]] =
                            [@ EXCEPT ![current_idx + 1].approval_status = "needs_revision",
                                      ![current_idx + 1].revision_feedback = data]]
            /\ last' = Step("tool_revise", m, "none", current_idx,
                            [NoOut EXCEPT !.kind = "tool_revision_requested",
                                          !.idx = current_idx + 1], FALSE)
    /\ UNCHANGED <<preloaded_reviews, review_data, current_indices, review_states,
                   last_command, in_agent_advice_mode, active_sessions, tasks>>

\* action == "next"
ToolNext(m) ==
    /\ Cursor(m) < MaxCursor
    /\ IF ~HasSession(m)
       THEN /\ current_indices' = current_indices
            /\ last' = Step("tool_next", m, "none", -1, ToolOut("tool_error"), FALSE)
       ELSE /\ current_indices' = [current_indices EXCEPT ![m] = Cursor(m) + 1]
            /\ last' = Step("tool_next", m, "none", Cursor(m), ToolOut("tool_success"), FALSE)
    /\ UNCHANGED <<preloaded_reviews, store, review_data, review_states, last_command,
                   in_agent_advice_mode, active_sessions, tasks>>

\* The JSON the summarize action returns: status 'summary', the counts,
\* current_index and completed; for a session value that is no dict line 329
\* raises and the except of the tool returns an error.
SummaryOut(m) ==
    IF GetRaises(m) THEN ToolOut("tool_error") ELSE
    [NoOut EXCEPT !.kind = "tool_summary",
                  !.total = Summarize(m).total,
                  !.approved = Summarize(m).approved,
                  !.pending = Summarize(m).pending,
                  !.needs_revision = Summarize(m).needs_revision,
                  !.idx = Summarize(m).current_index,
                  !.completed = Summarize(m).completed]

\* action == "summarize", called on its own
ToolSummarizeMutant(m) ==
    /\ HasSession(m)
    /\ last' = Step("tool_summarize", m, "none", Cursor(m), SummaryOut(m), FALSE)
    /\ review_states' = [review_states EXCEPT ![m] = "completed"]
    /\ UNCHANGED <<preloaded_reviews, store, review_data, current_indices,
                   last_command, in_agent_advice_mode, active_sessions, tasks>>

ToolSummarize(m) ==
    /\ IF ~HasSession(m) \/ GetRaises(m)
       THEN last' = Step("tool_summarize", m, "none", -1, ToolOut("tool_error"), FALSE)
       ELSE last' = Step("tool_summarize", m, "none", Cursor(m), SummaryOut(m), FALSE)
    /\ UNCHANGED <<preloaded_reviews, store, review_data, current_indices, review_states,
                   last_command, in_agent_advice_mode, active_sessions, tasks>>
(***************************************************************************)
(* The server after startup: preload_reviews filled preloaded_reviews with *)
(* a filtered batch, or failed before the assignment and left it empty, or *)
(* was given output that is JSON but no object: the filter returns that    *)
(* unchanged with removed_count 0, lines 95-99 assign the global, and only *)
(* then line 101 raises, which the except logs.                            *)
(***************************************************************************)
Preloaded(rs) ==
    LET f == filter_reviews_by_rating(MkReviews(rs), DefaultMaxRating) IN
    [reviews |-> f.analyzed_reviews,
     global |-> [loaded |-> TRUE, json_result |-> "pre", total |-> Len(rs),
                 removed_count |-> f.removed_count]]

PreloadedNonDict ==
    [reviews |-> <<>>,
     global |-> [loaded |-> TRUE, json_result |-> NonDict, total |-> 0,
                 removed_count |-> 0]]

NotPreloaded ==
    [reviews |-> <<>>,
     global |-> [loaded |-> FALSE, json_result |-> NoObj, total |-> 0,
                 removed_count |-> 0]]

Init ==
    /\ \E p \in {NotPreloaded, PreloadedNonDict}
                  \cup {Preloaded(rs) : rs \in UpstreamBatches} :
          /\ preloaded_reviews = p.global
          /\ store = [o \in ObjIds |-> IF o = "pre" THEN p.reviews ELSE <<>>]
    /\ review_data = [m \in Managers |-> NoObj]
    /\ current_indices = [m \in Managers |-> Absent]
    /\ review_states = [m \in Managers |-> "none"]
    /\ last_command = [m \in Managers |-> "none"]
    /\ in_agent_advice_mode = [m \in Managers |-> FALSE]
    /\ active_sessions = [m \in Managers |-> FALSE]
    /\ tasks = [m \in Managers |-> EmptyBag]
    /\ last = NoLast


\* The deliveries, the classifications, the periodic checks and the ingestion
\* steps of one manager.
Serve(m) ==
    \/ \E text \in Messages : whatsapp_webhook(m, text)
    \/ \E text \in Messages : ToolProcessMessage(m, text)
    \/ check_and_send_initial_message(m)
    \/ FetchAnnounce(m)
    \/ FetchFirst(m)
    \/ check_inactive_sessions(m)
    \/ ToolNext(m)

\* The server with one manager writing to it.
Next == Serve("m1")

Spec == Init /\ [][Next]_vars

(***************************************************************************)
(* Ingestion by both of its paths: fetch_reviews_background, as the        *)
(* periodic check runs it, and the tool's initialize, with the steps that  *)
(* write the session in between: the approval and the skip the classifier  *)
(* records and the tool's next, which move the cursor of the session the   *)
(* next ingestion overwrites.                                              *)
(***************************************************************************)
CarriedStatuses == {"unset", "approved"}

Ingest(m) ==
    \/ whatsapp_webhook(m, T_WELCOME)
    \/ \E text \in {T_APPROVE, T_SKIP} : ToolProcessMessage(m, text)
    \/ ToolNext(m)
    \/ check_and_send_initial_message(m)
    \/ FetchAnnounce(m)
    \/ FetchFirst(m)
    \/ \E status \in {"success", "error", "not_object"}, rs \in ToolBatches,
          carried \in CarriedStatuses :
          ToolInitialize(m, status, rs, carried)

IngestNext == Ingest("m1")

IngestSpec == Init /\ [][IngestNext]_vars

(***************************************************************************)
(* The review management tool, on the sessions its own initialize writes   *)
(* and on those the periodic check ingests.                                *)
(***************************************************************************)
Tool(m) ==
    \/ whatsapp_webhook(m, T_WELCOME)
    \/ check_and_send_initial_message(m)
    \/ FetchAnnounce(m)
    \/ FetchFirst(m)
    \/ \E status \in {"success", "error", "not_object"}, rs \in UpstreamBatches,
          carried \in CarriedStatuses :
          ToolInitialize(m, status, rs, carried)
    \/ ToolGetNext(m)
    \/ ToolRevise(m, T_ADD_WARMTH)
    \/ ToolNext(m)
    \/ ToolSummarize(m)

ToolsNext == Tool("m1")

ToolSpec == Init /\ [][ToolsNext]_vars

(***************************************************************************)
(* Two managers served by the one process: their deliveries, their         *)
(* ingestions and their approvals interleave at the awaits.                *)
(***************************************************************************)
Shared(m) ==
    \/ whatsapp_webhook(m, T_WELCOME)
    \/ ToolProcessMessage(m, T_APPROVE)
    \/ check_and_send_initial_message(m)
    \/ FetchAnnounce(m)
    \/ FetchFirst(m)

SharedNext == \E m \in Managers : Shared(m)

SharedSpec == Init /\ [][SharedNext]_vars

(***************************************************************************)
(* A manager who talks to the advice agent in the middle of a review: the  *)
(* manager enters and leaves the advice mode and sends review commands and *)
(* free text in and out of it.  The mode is asked for with 'agent advice', *)
(* with 'agent_advice' and in a text that also holds a fetch trigger.      *)
(***************************************************************************)
AdviceMessages == {T_AGENT_ADVICE, T_AGENT_ADVICE_US, T_FETCH_ADVICE, T_EXIT,
                   T_APPROVE, T_FEEDBACK, T_FETCH, T_SKIP}

Advising(m) ==
    \/ whatsapp_webhook(m, T_WELCOME)
    \/ \E text \in AdviceMessages : ToolProcessMessage(m, text)
    \/ check_and_send_initial_message(m)
    \/ FetchAnnounce(m)
    \/ FetchFirst(m)

AdviceNext == Advising("m1")

AdviceSpec == Init /\ [][AdviceNext]_vars

(***************************************************************************)
(* The rating split: filter_reviews_by_rating applied to every batch of up *)
(* to MaxFilterBatch reviews rated 1..5 at every threshold, and the        *)
(* ingestion of such a batch by fetch_reviews_background, which calls the  *)
(* filter with its default threshold, writes the session from the result   *)
(* and reports the counts it derives from it.                              *)
(***************************************************************************)
FilterRatings == 1..5
FilterThresholds == 0..5
FilterBatches == SeqsUpTo(FilterRatings, MaxFilterBatch)

\* A batch and a threshold, not yet filtered.
FilterInput(rs, max_rating) ==
    [op |-> "batch", m |-> "none", input |-> MkReviews(rs), max_rating |-> max_rating,
     queue |-> <<>>, high_rated_reviews |-> 0, pending_reviews |-> 0]

FilterInit ==
    /\ preloaded_reviews = NotPreloaded.global
    /\ store = [o \in ObjIds |-> <<>>]
    /\ review_data = [m \in Managers |-> NoObj]
    /\ current_indices = [m \in Managers |-> Absent]
    /\ review_states = [m \in Managers |-> "none"]
    /\ last_command = [m \in Managers |-> "none"]
    /\ in_agent_advice_mode = [m \in Managers |-> FALSE]
    /\ active_sessions = [m \in Managers |-> FALSE]
    /\ tasks = [m \in Managers |-> EmptyBag]
    /\ \E rs \in FilterBatches, max_rating \in FilterThresholds :
          last = FilterInput(rs, max_rating)

\* filter_reviews_by_rating(review_data, max_rating) called on the batch: it
\* returns a copy and the count and writes nothing.
FilterCall ==
    LET f == filter_reviews_by_rating(last.input, last.max_rating) IN
    /\ last.op = "batch"
    /\ last' = [last EXCEPT !.op = "filter",
                            !.queue = f.analyzed_reviews,
                            !.high_rated_reviews = f.removed_count]
    /\ UNCHANGED <<preloaded_reviews, store, review_data, current_indices, review_states,
                   last_command, in_agent_advice_mode, active_sessions, tasks>>

\* fetch_reviews_background(m) up to its first await, run_review_workflow
\* having returned the batch: the filter at the default threshold (line 352),
\* the session written from its result (355-357), every queued review set
\* pending (359-363) and the three counts (365-368), which the coroutine keeps
\* while it is in asyncio.sleep(6).
FilterBatch(m) ==
    LET reviews_original == last.input
        f == filter_reviews_by_rating(reviews_original, DefaultMaxRating)
        total_reviews == Len(reviews_original)
        high_rated_reviews == f.removed_count
    IN
    /\ last.op = "batch"
    /\ last.max_rating = DefaultMaxRating
    /\ ~preloaded_reviews.loaded
    /\ BagCardinality(tasks[m]) < MaxFetch
    /\ InitSession(m, m, f.analyzed_reviews)
    /\ tasks' = Fetching(m, total_reviews, high_rated_reviews)
    /\ last' = [last EXCEPT !.op = "ingest", !.m = m,
                            !.queue = f.analyzed_reviews,
                            !.high_rated_reviews = high_rated_reviews,
                            !.pending_reviews = total_reviews - high_rated_reviews]
    /\ UNCHANGED <<preloaded_reviews, last_command, in_agent_advice_mode, active_sessions>>

\* The filter on its own, or the ingestion of the batch for a manager with
\* what the coroutine does after its two awaits.
FilterNext ==
    \/ FilterCall
    \/ FilterBatch("m1")
    \/ FetchAnnounce("m1")
    \/ FetchFirst("m1")

FilterSpec == FilterInit /\ [][FilterNext]_vars


(***************************************************************************)
(* analyze_sentiment (sentiment_analysis_agent.py) on its own: every batch *)
(* of up to MaxSentimentBatch filtered reviews rated 1..5, each with one   *)
(* of two texts.                                                           *)
(***************************************************************************)
\* if rating <= 2 ... elif rating == 3 ... else
SentimentMutant(rating) ==
    IF rating < 2 THEN "negative" ELSE IF rating = 3 THEN "neutral" ELSE "positive"

Sentiment(rating) ==
    IF rating <= 2 THEN "negative" ELSE IF rating = 3 THEN "neutral" ELSE "positive"

SentimentTexts == {"slow service", "great food"}

FilteredReview == [rating : FilterRatings, text : SentimentTexts]

\* analyzed_reviews.append({'rating': rating, 'text': text, 'sentiment': sentiment, ...})
AnalyzedReview(review) ==
    [rating |-> review.rating, text |-> review.text, sentiment |-> Sentiment(review.rating)]

SentimentInit ==
    /\ preloaded_reviews = NotPreloaded.global
    /\ store = [o \in ObjIds |-> <<>>]
    /\ review_data = [m \in Managers |-> NoObj]
    /\ current_indices = [m \in Managers |-> Absent]
    /\ review_states = [m \in Managers |-> "none"]
    /\ last_command = [m \in Managers |-> "none"]
    /\ in_agent_advice_mode = [m \in Managers |-> FALSE]
    /\ active_sessions = [m \in Managers |-> FALSE]
    /\ tasks = [m \in Managers |-> EmptyBag]
    /\ \E reviews \in SeqsUpTo(FilteredReview, MaxSentimentBatch) :
          last = [op |-> "filtered_reviews", m |-> "none", filtered_reviews |-> reviews,
                  analyzed_reviews |-> <<>>]

\* A rating of None makes the comparison rating <= 2 raise; the except branch
\* returns status error in place of the analysed batch.
analyze_sentiment ==
    LET reviews == last.filtered_reviews IN
    /\ last.op = "filtered_reviews"
    /\ IF \E i \in 1..Len(reviews) : reviews[i].rating = NullRating
       THEN last' = [last EXCEPT !.op = "analyze_sentiment_error"]
       ELSE last' = [last EXCEPT !.op = "analyze_sentiment",
                                 !.analyzed_reviews =
                                     [i \in 1..Len(reviews) |-> AnalyzedReview(reviews[i])]]
    /\ UNCHANGED <<preloaded_reviews, store, review_data, current_indices,
                   review_states, last_command, in_agent_advice_mode, active_sessions, tasks>>

SentimentNext == analyze_sentiment

SentimentSpec == SentimentInit /\ [][SentimentNext]_vars


(***************************************************************************)
(* The tools between a fetched batch and a session queue: ReviewFilterTool *)
(* (filter_reviews), SentimentAnalysisTool (analyze_sentiment), the        *)
(* ingestion of fetch_reviews_background (filter_reviews_by_rating and the *)
(* session write) and the initialize action of the review management tool. *)
(* run_review_workflow (main_new.py 39-55) gives the tasks to              *)
(* crew.kickoff(): which tool an agent of the crew calls, and with which   *)
(* JSON, is decided by the language model and by nothing in the code.  So  *)
(* the analysis is given the result of the filter or the fetched batch as  *)
(* it is, and the ingestion is given the JSON of the tool that ran last,   *)
(* of which it reads 'analyzed_reviews'.  A fetched review whose rating    *)
(* could not be extracted has rating None.                                 *)
(***************************************************************************)
FetchedRatings == {NullRating} \cup FilterRatings

FetchedReview == [rating : FetchedRatings, text : {"slow service"}]

\* The ratings of a list of reviews, in order.
Ratings(reviews) == [i \in 1..Len(reviews) |-> reviews[i].rating]

\* [review for review in reviews
\*  if review.get('rating') is not None and review.get('rating') <= 5]
filter_reviews(reviews) ==
    LET RECURSIVE Kept(_)
        Kept(s) == IF s = <<>> THEN <<>>
                   ELSE IF Head(s).rating # NullRating /\ Head(s).rating <= MaxStars
                        THEN <<Head(s)>> \o Kept(Tail(s))
                        ELSE Kept(Tail(s))
    IN Kept(reviews)

PipelineInit ==
    /\ preloaded_reviews = NotPreloaded.global
    /\ store = [o \in ObjIds |-> <<>>]
    /\ review_data = [m \in Managers |-> NoObj]
    /\ current_indices = [m \in Managers |-> Absent]
    /\ review_states = [m \in Managers |-> "none"]
    /\ last_command = [m \in Managers |-> "none"]
    /\ in_agent_advice_mode = [m \in Managers |-> FALSE]
    /\ active_sessions = [m \in Managers |-> FALSE]
    /\ tasks = [m \in Managers |-> EmptyBag]
    /\ \E reviews \in SeqsUpTo(FetchedReview, MaxPipelineBatch) :
          last = [op |-> "reviews", m |-> "none", reviews |-> reviews,
                  filtered_reviews |-> <<>>, analyzed_reviews |-> <<>>,
                  queue |-> <<>>, raised |-> FALSE]

\* filter_reviews applied to the fetched batch.
ReviewFilterTool ==
    /\ last.op = "reviews"
    /\ last' = [last EXCEPT !.op = "filtered_reviews",
                            !.filtered_reviews = filter_reviews(last.reviews)]
    /\ UNCHANGED <<preloaded_reviews, store, review_data, current_indices,
                   review_states, last_command, in_agent_advice_mode, active_sessions, tasks>>

\* The agent of the analysis task calls SentimentAnalysisTool with the fetched
\* reviews as 'filtered_reviews', ReviewFilterTool not having been called.
AnalyzeUnfiltered ==
    /\ last.op = "reviews"
    /\ last' = [last EXCEPT !.op = "filtered_reviews", !.filtered_reviews = last.reviews]
    /\ UNCHANGED <<preloaded_reviews, store, review_data, current_indices,
                   review_states, last_command, in_agent_advice_mode, active_sessions, tasks>>

\* json_result_original.get('analyzed_reviews', []) of what crew.kickoff()
\* returns at this point, the JSON of the tool that ran last.  Only the JSON
\* of analyze_sentiment holds a batch under 'analyzed_reviews'; the fetched
\* batch is under 'reviews', the filtered one under 'filtered_reviews' and an
\* error JSON holds none, and for these filter_reviews_by_rating returns the
\* object as it is with removed_count 0 (helper_functions.py 19-20).
CrewOutput ==
    IF last.op = "analyze_sentiment" THEN last.analyzed_reviews ELSE <<>>

\* fetch_reviews_background(m) up to its first await on what the crew
\* returned: json_result, removed_count = filter_reviews_by_rating(
\* json_result_original) (line 352), where int(None) raises TypeError into the
\* except branch with nothing written, and otherwise the session write, the
\* pending marking and the counts (355-368).  A returned object without
\* 'analyzed_reviews' is written as a session with an empty queue and the
\* counts are 0.
QueueForSession(m) ==
    /\ last.op \in {"reviews", "filtered_reviews", "analyze_sentiment",
                    "analyze_sentiment_error"}
    /\ ~preloaded_reviews.loaded
    /\ BagCardinality(tasks[m]) < MaxFetch
    /\ LET reviews_original == MkReviews(Ratings(CrewOutput))
           f == filter_reviews_by_rating(reviews_original, DefaultMaxRating)
       IN  IF FilterRaises(reviews_original)
           THEN /\ UNCHANGED <<store, review_data, current_indices, review_states, tasks>>
                /\ last' = [last EXCEPT !.op = "queue", !.m = m, !.raised = TRUE]
           ELSE /\ InitSession(m, m, f.analyzed_reviews)
                /\ tasks' = Fetching(m, Len(reviews_original), f.removed_count)
                /\ last' = [last EXCEPT !.op = "queue", !.m = m,
                                        !.queue = f.analyzed_reviews]
    /\ UNCHANGED <<preloaded_reviews, last_command, in_agent_advice_mode, active_sessions>>

PipelineNext ==
    \/ ReviewFilterTool
    \/ AnalyzeUnfiltered
    \/ analyze_sentiment
    \/ QueueForSession("m1")
    \/ FetchAnnounce("m1")
    \/ FetchFirst("m1")
    \/ \E status \in {"success", "error", "not_object"}, rs \in ToolBatches,
          carried \in CarriedStatuses :
          ToolInitialize("m1", status, rs, carried)

PipelineSpec == PipelineInit /\ [][PipelineNext]_vars

(***************************************************************************)
(* Properties.                                                             *)
(***************************************************************************)
Item(m, i) == Reviews(m)[i + 1]     \* reviews[i], i counted from 0 as in the code

\* The intent process_whatsapp_message returns for the text in this state.
Intent(m, text) == process_whatsapp_message(m, text).intent

\* The manager's session as the maps and the heap hold it.
Session(m) ==
    [review_data |-> review_data[m], current_indices |-> current_indices[m],
     review_states |-> review_states[m], items |-> Reviews(m)]

\* The step that just ended wrote manager m's session from upstream output.
Ingested(m) ==
    /\ last.m = m
    /\ \/ /\ last.op = "initial_check"
          /\ last.intent \in {"preloaded", "success", "error", "not_object"}
       \/ last.op = "tool_initialize" /\ last.out.kind = "tool_success"

\* C1: for one manager there is at most one state transition in flight: while
\* a handler of the manager is paused at an await with its transition
\* unfinished, no other step for that manager reads and writes the manager's
\* session; only the paused handler's own continuation does.
C1_NoInterleaving ==
    [][\A m \in Managers :
          (/\ tasks[m] # EmptyBag
           /\ last'.m = m
           /\ last'.op \notin {"announce", "first"}) => Session(m)' = Session(m)]_vars

\* C2: within an episode (up to the next ingestion) the cursor never decreases
\* and, of the message handling transitions, only APPROVED increases it.
C2_OnlyApprovedAdvances ==
    [][\A m \in Managers :
          ~Ingested(m)' =>
              /\ Cursor(m)' >= Cursor(m)
              /\ (Cursor(m)' > Cursor(m) /\ last'.op # "tool_next") =>
                    (last'.m = m /\ last'.intent = "APPROVED:NEXT_REVIEW")]_vars

\* The step is a webhook delivery from manager m whose text the classifier
\* answers with the intent, in the state the delivery arrives in.
Delivery(m, intent) ==
    /\ last'.op = "webhook" /\ last'.m = m
    /\ Intent(m, last'.text) = intent

\* C3: an APPROVED message delivered at cursor i with i + 1 < len(items) leaves
\* items[i] approved, the cursor at i + 1 and the lifecycle initialized, and
\* presents items[i + 1].
C3_ApprovedPresentsNext ==
    [][\A m \in Managers :
          (Delivery(m, "APPROVED:NEXT_REVIEW") /\ Cursor(m) + 1 < Len(Reviews(m))) =>
              /\ Reviews(m)'[Cursor(m) + 1].approval_status = "approved"
              /\ current_indices'[m] = Cursor(m) + 1
              /\ review_states'[m] = "initialized"
              /\ last'.out.kind = "review"
              /\ last'.out.idx = Cursor(m) + 1
              /\ last'.out.id = Reviews(m)[Cursor(m) + 2].id]_vars

\* C4: an APPROVED message delivered at the last item leaves it approved, the
\* cursor at len(items) and the lifecycle completed, and sends a summary that
\* carries the total and approved counts of the session.
C4_LastApprovedSummary ==
    [][\A m \in Managers :
          (Delivery(m, "APPROVED:NEXT_REVIEW") /\ Cursor(m) + 1 = Len(Reviews(m))) =>
              /\ store'[review_data[m]][Cursor(m) + 1].approval_status = "approved"
              /\ current_indices'[m] = Len(Reviews(m))
              /\ review_states'[m] = "completed"
              /\ last'.out.total = Len(Reviews(m))
              /\ last'.out.approved = Count(store'[review_data[m]], "approved")]_vars

\* C5: when REVISION(feedback) is delivered for the item at the cursor and the
\* revision adapter returns a text, the item is needs_revision, its feedback
\* field holds the feedback, its response is the returned text, which is what
\* is sent, and the cursor is where it was.
C5_RevisionApplied ==
    [][\A m \in Managers :
          (Delivery(m, "REVISION") /\ last'.out.kind # "revision_error") =>
              /\ Cursor(m)' = Cursor(m)
              /\ Reviews(m)'[Cursor(m) + 1].approval_status = "needs_revision"
              /\ Reviews(m)'[Cursor(m) + 1].manager_feedback = last'.text
              /\ Reviews(m)'[Cursor(m) + 1].response = last'.out.response
              /\ last'.out.kind = "revised"
              /\ last'.out.response \in RevisedResponses]_vars

\* C6: if the revision adapter raises, the item's response is what it was
\* before the call, the item remains needs_revision, cursor and lifecycle are
\* unchanged, and what is sent is the error notice, not a revised draft.
C6_RevisionFailureKeepsResponse ==
    [][\A m \in Managers :
          (Delivery(m, "REVISION") /\ last'.out.kind # "revised") =>
              /\ Reviews(m)'[Cursor(m) + 1].response = Reviews(m)[Cursor(m) + 1].response
              /\ Reviews(m)'[Cursor(m) + 1].approval_status = "needs_revision"
              /\ current_indices'[m] = current_indices[m]
              /\ review_states'[m] = review_states[m]
              /\ last'.out.kind = "revision_error"
              /\ last'.out.response = "none"]_vars

\* C7: immediately after an ingestion for a manager every item of the
\* manager's queue is pending, whatever status the record carried before.
C7_IngestionSetsPending ==
    \A m \in Managers :
        Ingested(m) => \A i \in 1..Len(Reviews(m)) : Reviews(m)[i].approval_status = "pending"

\* An ingestion of the preloaded batch for a second manager, after the first
\* manager's session, built from the same batch, had an item of it approved.
C7_Witness ==
    /\ Ingested("m2") /\ last.intent = "preloaded"
    /\ review_data["m1"] = "pre" /\ review_data["m2"] = "pre"
    /\ last_command["m1"] = "approve"
    /\ Len(Reviews("m2")) > 0
    /\ \A i \in 1..Len(Reviews("m2")) : Reviews("m2")[i].approval_status = "pending"

\* C8: a successful ingestion creates or overwrites the manager's session and
\* leaves it with cursor 0 and, when the queue is not empty, lifecycle
\* initialized, whatever the cursor and the lifecycle were.
C8_IngestionResetsSession ==
    \A m \in Managers :
        Ingested(m) =>
            /\ HasSession(m)
            /\ current_indices[m] = 0
            /\ Len(Reviews(m)) > 0 => review_states[m] = "initialized"

\* An ingestion that overwrote a completed session whose cursor had been
\* moved to 2 and in which an approval had been classified: the new session
\* has a queue, cursor 0 and lifecycle initialized.
C8_Witness ==
    \E m \in Managers :
        /\ Ingested(m) /\ last_command[m] = "approve"
        /\ last.prior.current_indices = 2
        /\ last.prior.review_states = "completed"
        /\ Len(Reviews(m)) > 0
        /\ current_indices[m] = 0 /\ review_states[m] = "initialized"

\* C9: for every batch and threshold the rating split puts into the queue
\* exactly the reviews rated at most the threshold, in their original order,
\* and counts the others as excluded, so that queue length + excluded count =
\* batch size; the ingestion, which splits at the default threshold, writes
\* that queue as the manager's session, and the pending_reviews it derives and
\* reports in its start message equals the queue length.
C9_RatingSplit ==
    /\ last.op \in {"filter", "ingest"} =>
        LET threshold == IF last.op = "ingest" THEN DefaultMaxRating ELSE last.max_rating
            kept == {i \in 1..Len(last.input) : last.input[i].rating <= threshold}
            over == {i \in 1..Len(last.input) : last.input[i].rating > threshold}
            q == IF last.op = "ingest" THEN Reviews(last.m) ELSE last.queue
        IN  /\ {q[k].id : k \in 1..Len(q)} = kept
            /\ Len(q) = Cardinality(kept)
            /\ \A k \in 1..Len(q) :
                  q[k] = IF last.op = "ingest"
                         THEN [last.input[q[k].id] EXCEPT !.approval_status = "pending"]
                         ELSE last.input[q[k].id]
            /\ \A k \in 1..(Len(q) - 1) : q[k].id < q[k + 1].id
            /\ last.high_rated_reviews = Cardinality(over)
            /\ Len(q) + last.high_rated_reviews = Len(last.input)
            /\ last.op = "ingest" =>
                  /\ last.pending_reviews = Len(q)
                  /\ \A t \in BagToSet(tasks[last.m]) :
                        /\ t.total = Len(last.input)
                        /\ t.high = Cardinality(over)
                        /\ t.pending = Len(q)
    /\ last.op = "announce" =>
          /\ last.out.kind = "review_start"
          /\ last.out.pending = Len(Reviews(last.m))
          /\ last.out.pending + last.out.high = last.out.total

\* Scenario A ingested for a manager: ratings [5, 2, 4], threshold 3; the
\* session's queue is the review rated 2, pending, 2 are excluded and
\* pending_reviews is 1.
C9_Witness ==
    /\ last.op = "ingest" /\ last.m = "m1"
    /\ [i \in 1..Len(last.input) |-> last.input[i].rating] = <<5, 2, 4>>
    /\ [k \in 1..Len(Reviews("m1")) |-> Reviews("m1")[k].rating] = <<2>>
    /\ Reviews("m1")[1].id = 2
    /\ Reviews("m1")[1].approval_status = "pending"
    /\ current_indices["m1"] = 0
    /\ last.high_rated_reviews = 2
    /\ last.pending_reviews = 1

\* C10: a session whose queue is empty after the rating filter is completed
\* from the moment the ingestion wrote it, never initialized.
C10_EmptyQueueCompleted ==
    \A m \in Managers :
        (HasSession(m) /\ Len(Reviews(m)) = 0) =>
            /\ review_states[m] = "completed"
            /\ Summarize(m).total = 0

\* C11: an ingestion whose upstream batch carries an error status leaves the
\* manager's session (items, cursor, lifecycle, item statuses) exactly as it
\* was and surfaces an error.
C11_ErrorBatchLeavesSession ==
    [][\A m \in Managers :
          (/\ last'.m = m
           /\ last'.op \in {"initial_check", "tool_initialize"}
           /\ last'.intent = "error") =>
              /\ Session(m)' = Session(m)
              /\ store' = store
              /\ last'.out.kind \in {"tool_error", "fetch_error"}]_vars

\* C12: in every reachable state in which a session exists and the cursor is
\* at or past the end of the queue, the lifecycle is completed.
C12_PastEndCompleted ==
    \A m \in Managers :
        (HasSession(m) /\ Cursor(m) >= Len(Reviews(m))) => review_states[m] = "completed"

\* The changes of approval_status the lifecycle of an item allows.
AllowedStatusChanges ==
    {<<"pending", "approved">>, <<"pending", "needs_revision">>,
     <<"needs_revision", "pending">>}

\* C13: within an episode (no ingestion in between) an item's approval_status
\* changes only along pending -> approved or pending -> needs_revision
\* (-> pending); an approved item never changes to needs_revision or pending.
C13_StatusTransitions ==
    [][\A m \in Managers :
          (HasSession(m) /\ ~Ingested(m)' /\ review_data'[m] = review_data[m]) =>
              \A i \in 1..Len(Reviews(m)) :
                  LET before == Reviews(m)[i].approval_status
                      after == Reviews(m)'[i].approval_status
                  IN  before # after => <<before, after>> \in AllowedStatusChanges]_vars

\* C14: a delivery or an ingestion for one manager leaves every other
\* manager's session (items with their statuses and responses, cursor,
\* lifecycle) as it was, also when both were ingested from the preloaded batch.
C14_SessionsIsolated ==
    [][\A a \in Managers : \A b \in Managers \ {a} :
          last'.m = a => Session(b)' = Session(b)]_vars

\* The session as an ingestion leaves it: cursor 0, every item pending.
FreshSession(m) ==
    /\ HasSession(m)
    /\ current_indices[m] = 0
    /\ \A i \in 1..Len(Reviews(m)) : Reviews(m)[i].approval_status = "pending"

\* C15: when an ingestion wrote a new session while an earlier action of the
\* manager was paused at an await, the paused action is discarded: when it
\* resumes it changes nothing of the new session, which still has cursor 0,
\* every item pending and the lifecycle the ingestion gave it.
C15_InflightDiscarded ==
    [][\A m \in Managers :
          (/\ Ingested(m) /\ tasks[m] # EmptyBag
           /\ last'.op = "first" /\ last'.m = m) =>
              /\ FreshSession(m)'
              /\ Session(m)' = Session(m)]_vars

\* The intents process_whatsapp_message returns.
Intents ==
    {"AGENT_ADVICE:exit", "AGENT_ADVICE", "COMMAND:FETCH_REVIEWS", "COMMAND:AGENT_ADVICE",
     "CONVERSATION", "COMMAND:SHOW_SUMMARY", "COMMAND:ALL_COMPLETED", "COMMAND:NEXT_REVIEW",
     "COMMAND:CONTINUE_REVIEWS", "APPROVED:NEXT_REVIEW", "REVISION", "FEEDBACK_NEEDED",
     "UNCLEAR"}

\* C17: in every reachable state (no session, awaiting a decision, awaiting
\* feedback, completed, cursor at or past the end) every inbound message is
\* classified into an intent, the intents that index reviews[current_idx] are
\* returned only with the cursor inside the queue, and handling a delivery
\* completes: no delivery raised.
C17_TransitionTotal ==
    /\ \A m \in Managers : \A text \in AllTexts :
          LET r == process_whatsapp_message(m, text) IN
          /\ r.intent \in Intents
          /\ r.intent \in {"APPROVED:NEXT_REVIEW", "REVISION"} =>
                 /\ HasSession(m)
                 /\ Cursor(m) < Len(Reviews(m))
          /\ r.ci[m] \in {Absent} \cup Nat
          /\ r.lc[m] \in {"none", "approve", "feedback"}
    /\ last.op = "webhook" => ~last.raised

\* background_tasks.add_task(fetch_reviews_background, ...) happened in the step.
FetchStarted(m) == BagCardinality(tasks'[m]) = BagCardinality(tasks[m]) + 1

\* C18: a delivery from a manager with no session, whatever its text, leaves
\* the manager without a session in that step, starts the background
\* ingestion for the manager and raises nothing.
C18_NoSessionTriggersIngestion ==
    [][\A m \in Managers :
          (last'.op = "webhook" /\ last'.m = m /\ ~HasSession(m)) =>
              /\ ~HasSession(m)'
              /\ FetchStarted(m)
              /\ ~last'.raised]_vars

\* Line 150 of the classifier: the session exists and its lifecycle is
\* completed.
AllCompleted(m) == HasSession(m) /\ review_states[m] = "completed"

\* C19: a delivery to a completed session that is not a fetch command leaves
\* the session completed and unchanged and answers with the completion
\* message carrying the session's total and approved counts.
C19_CompletedStaysCompleted ==
    [][\A m \in Managers :
          (/\ last'.op = "webhook" /\ last'.m = m
           /\ AllCompleted(m)
           /\ Intent(m, last'.text) \in {"COMMAND:ALL_COMPLETED", "COMMAND:SHOW_SUMMARY"}) =>
              /\ Session(m)' = Session(m)
              /\ last'.out.kind \in {"all_completed", "summary"}
              /\ last'.out.total = Len(Reviews(m))
              /\ last'.out.approved = Count(Reviews(m), "approved")]_vars

\* C20: a delivery classified UNCLEAR changes nothing of the session and of
\* last_command, and is answered with the clarification prompt.
C20_UnclearMutatesNothing ==
    [][\A m \in Managers :
          Delivery(m, "UNCLEAR") =>
              /\ Session(m)' = Session(m)
              /\ store' = store
              /\ last_command' = last_command
              /\ last'.out.kind = "clarification"]_vars

\* C21: SHOW_SUMMARY delivered to a session leaves it unchanged and is
\* answered with the summary, whose counts are those of the session's items.
C21_ShowSummaryEmitsCounts ==
    [][\A m \in Managers :
          (Delivery(m, "COMMAND:SHOW_SUMMARY") /\ HasSession(m)) =>
              /\ Session(m)' = Session(m)
              /\ last'.out.kind = "summary"
              /\ last'.out.total = Summarize(m).total
              /\ last'.out.approved = Summarize(m).approved
              /\ last'.out.pending = Summarize(m).pending
              /\ last'.out.needs_revision = Summarize(m).needs_revision]_vars

\* C22: computing a summary changes no field of the session, and the summary
\* computed again right after it (no approval, revision or ingestion in
\* between) has the same total, approved, pending, needs_revision, position
\* and completed flag as the one just returned.
C22_SummaryIdempotent ==
    [][\A m \in Managers :
          (last'.op = "tool_summarize" /\ last'.m = m /\ HasSession(m)) =>
              /\ last'.out = SummaryOut(m)
              /\ SummaryOut(m)' = last'.out
              /\ Session(m)' = Session(m)
              /\ store' = store
              /\ last_command' = last_command]_vars

\* A summary of a two-item session in progress with one item marked for
\* revision.
C22_Witness ==
    \E m \in Managers :
        /\ last.op = "tool_summarize" /\ last.m = m
        /\ last.out.kind = "tool_summary"
        /\ last.out.total = 2
        /\ last.out.needs_revision = 1
        /\ last.out.pending = 1
        /\ last.out.idx = 0
        /\ ~last.out.completed
        /\ SummaryOut(m) = last.out

\* C23: classifying a message (tools[1], process_whatsapp_message) reads the
\* session and returns an intent: the cursor and the queue with its item
\* statuses are the same before and after it, for every message.
C23_ClassifierReadsOnly ==
    \A m \in Managers : \A text \in AllTexts :
        LET r == process_whatsapp_message(m, text) IN
        /\ r.ci = current_indices
        /\ r.st = store

\* C24: when the approval of the last item is delivered and handled, the
\* manager's items, cursor and lifecycle are removed, so the manager has no
\* session, and the other per-manager records are as they were.
C24_FinishClearsSession ==
    [][\A m \in Managers :
          (Delivery(m, "APPROVED:NEXT_REVIEW") /\ Cursor(m) + 1 >= Len(Reviews(m))) =>
              /\ ~HasSession(m)'
              /\ current_indices'[m] = Absent
              /\ review_states'[m] = "none"
              /\ \A b \in Managers \ {m} : Session(b)' = Session(b)]_vars

\* C25: every delivery from a manager, whatever the session state (also with
\* no session), stamps the manager's last_activity and then goes on to the
\* classification: the stamp does not fail and the message is classified.
C25_DeliveryStampsActivity ==
    [][\A m \in Managers :
          (last'.op = "webhook" /\ last'.m = m) =>
              /\ active_sessions'[m]
              /\ ~last'.raised
              /\ last'.intent = Intent(m, last'.text)]_vars

\* C26: the summary of a session reports the current position counted from 1:
\* with the cursor at index i the reported position is i + 1, as the index
\* that get_next reports when it presents the item.
C26_SummaryPositionOneBased ==
    [][\A m \in Managers :
          (last'.op = "tool_summarize" /\ last'.m = m /\ HasSession(m)) =>
              last'.out.idx = Cursor(m) + 1]_vars

\* C27: no step that handles a message (the delivery, the classification of
\* its text) changes the length or the order of a queue or the rating of an
\* item; the records keep their identity and only approval_status and the
\* feedback field are written.
C27_QueueAndReviewFixed ==
    [][last'.op \in {"webhook", "tool_process_message"} =>
          \A o \in ObjIds :
              /\ Len(store'[o]) = Len(store[o])
              /\ \A i \in 1..Len(store[o]) :
                    /\ store'[o][i].id = store[o][i].id
                    /\ store'[o][i].rating = store[o][i].rating
                    /\ store'[o][i].response = store[o][i].response]_vars

\* A queue of two after the approval of its first item was classified: both
\* records are where they were, with their ratings.
C27_Witness ==
    \E m \in Managers :
        /\ last.op = "tool_process_message" /\ last.m = m
        /\ last.intent = "APPROVED:NEXT_REVIEW"
        /\ Len(Reviews(m)) = 2
        /\ Item(m, 0).approval_status = "approved"
        /\ Item(m, 0).id < Item(m, 1).id
        /\ Item(m, 0).rating = 3 /\ Item(m, 1).rating = 3
        /\ Item(m, 1).approval_status = "pending"

\* C28: for every rating in 1..5 the sentiment assigned by the analysis is
\* negative for a rating of at most 2, neutral for 3 and positive above 3, and
\* two reviews with the same rating get the same sentiment whatever their text.
C28_SentimentFromRating ==
    last.op = "analyze_sentiment" =>
        LET given == last.filtered_reviews
            analyzed == last.analyzed_reviews
        IN  /\ Len(analyzed) = Len(given)
            /\ \A i \in 1..Len(given) :
                  /\ analyzed[i].rating = given[i].rating
                  /\ analyzed[i].text = given[i].text
                  /\ given[i].rating \in {1, 2} <=> analyzed[i].sentiment = "negative"
                  /\ given[i].rating = 3 <=> analyzed[i].sentiment = "neutral"
                  /\ given[i].rating \in {4, 5} <=> analyzed[i].sentiment = "positive"
            /\ \A i, j \in 1..Len(given) :
                  given[i].rating = given[j].rating =>
                      analyzed[i].sentiment = analyzed[j].sentiment

\* Two reviews rated 2 with different texts, both analysed as negative.
C28_Witness ==
    /\ last.op = "analyze_sentiment"
    /\ Len(last.filtered_reviews) = 2
    /\ last.filtered_reviews[1] = [rating |-> 2, text |-> "slow service"]
    /\ last.filtered_reviews[2] = [rating |-> 2, text |-> "great food"]
    /\ last.analyzed_reviews[1].sentiment = "negative"
    /\ last.analyzed_reviews[2].sentiment = "negative"

\* C29: k approvals handled approve k distinct items and the cursor never
\* passes an item still pending: every APPROVED delivery adds one to the
\* number of approved items of the session, and the cursor after it stands
\* right behind approved items only.
C29_BelowCursorApproved ==
    [][\A m \in Managers :
          Delivery(m, "APPROVED:NEXT_REVIEW") =>
              /\ Count(Reviews(m)', "approved") = Count(Reviews(m), "approved") + 1
              /\ Cursor(m)' > 0
              /\ Reviews(m)'[Cursor(m)'].approval_status = "approved"]_vars

\* C30, as a property of finite runs: every APPROVED delivery to a session
\* with r > 0 items left from the cursor leaves r - 1 items left, so that n
\* approvals finish a session of n items, and when none is left the lifecycle
\* is completed.
C30_CompletesAllApproved ==
    [][\A m \in Managers :
          Delivery(m, "APPROVED:NEXT_REVIEW") =>
              /\ Len(Reviews(m)) - Cursor(m)' = Len(Reviews(m)) - Cursor(m) - 1
              /\ Cursor(m)' = Len(Reviews(m)) => review_states'[m] = "completed"]_vars

\* C31: in every reachable state of an existing session the cursor is a
\* position of the queue or one past its last item: 0 <= cursor <= len(items),
\* whatever skip/next messages, approvals and tool 'next' calls were made.
C31_CursorWithinQueue ==
    \A m \in Managers :
        HasSession(m) => (0 <= Cursor(m) /\ Cursor(m) <= Len(Reviews(m)))

\* C32: while a session's lifecycle is completed, no step other than a fresh
\* ingestion changes its cursor, its queue or any item's approval_status,
\* feedback or response.
C32_CompletedFrozen ==
    [][\A m \in Managers :
          (AllCompleted(m) /\ ~Ingested(m)') =>
              /\ review_data'[m] = review_data[m]
              /\ current_indices'[m] = current_indices[m]
              /\ Reviews(m)' = Reviews(m)]_vars

\* The manager was asked for free-text feedback on the item at the cursor:
\* last_command is 'feedback', the session is in progress and the cursor is on
\* an item.
AwaitingFeedback(m) ==
    /\ HasSession(m)
    /\ review_states[m] # "completed"
    /\ last_command[m] = "feedback"
    /\ Cursor(m) < Len(Reviews(m))

\* C33: the message that follows a feedback request is captured as the
\* revision feedback for the item at the cursor: its intent is REVISION, the
\* item is needs_revision with the message text as its manager_feedback, and
\* the awaiting-feedback flag is cleared.
C33_FeedbackCaptured ==
    [][\A m \in Managers :
          (/\ AwaitingFeedback(m)
           /\ last'.m = m /\ last'.op = "tool_process_message") =>
              /\ last'.intent = "REVISION"
              /\ review_data'[m] = review_data[m]
              /\ Reviews(m)'[Cursor(m) + 1].approval_status = "needs_revision"
              /\ Reviews(m)'[Cursor(m) + 1].manager_feedback = last'.text
              /\ last_command'[m] = "none"]_vars

\* C34: a fresh ingestion leaves the manager awaiting a decision: right after
\* the session was written from a batch, no feedback request is pending for
\* it, so the next free-text message is not taken as revision feedback on
\* the first item of the new session.
C34_IngestionAwaitsDecision ==
    \A m \in Managers : Ingested(m) => last_command[m] # "feedback"

\* The statuses an item of a session carries.
SessionStatuses == {"pending", "approved", "needs_revision"}

\* C35: in every reachable state of an existing session the summary of the
\* session is computed and its counts partition the queue: approved + pending
\* + needs_revision = total = len(items), every item carrying exactly one of
\* the three statuses.
C35_CountsPartitionQueue ==
    \A m \in Managers :
        HasSession(m) =>
            LET summary == SummaryOut(m) IN
            /\ summary.kind = "tool_summary"
            /\ summary.total = Len(Reviews(m))
            /\ summary.approved + summary.pending + summary.needs_revision = summary.total
            /\ \A i \in 1..Len(Reviews(m)) :
                  Reviews(m)[i].approval_status \in SessionStatuses

\* The classification of a message of manager m in agent-advice mode leaves
\* the manager's review session as it was (queue and item records, cursor,
\* lifecycle, awaiting-feedback flag) and returns the advice intent; the mode
\* ends with a message that is exactly 'exit' in any case of letters and with
\* no other.  A delivery changes neither the session nor the mode.
AdviceModeKeepsSession(m) ==
    /\ (last'.m = m /\ last'.op = "tool_process_message" /\ in_agent_advice_mode[m]) =>
          /\ Session(m)' = Session(m)
          /\ store' = store
          /\ last_command' = last_command
          /\ last'.intent =
                (IF Lower(last'.text) = K_exit THEN "AGENT_ADVICE:exit"
                                               ELSE "AGENT_ADVICE")
          /\ in_agent_advice_mode'[m] = (Lower(last'.text) # K_exit)
    /\ (last'.m = m /\ last'.op = "webhook") =>
          /\ Session(m)' = Session(m)
          /\ store' = store
          /\ last_command' = last_command
          /\ in_agent_advice_mode' = in_agent_advice_mode

\* The message of the step holds one of the two fetch triggers.
HoldsFetchTrigger ==
    \/ Contains(Lower(last'.text), K_fetch_reviews)
    \/ Contains(Lower(last'.text), K_get_reviews)

\* C36 as stated: the frame and the exit as above, and outside the mode the
\* classification of a message enters it if and only if the message contains
\* 'agent advice'.
C36_EnteredByAgentAdvice ==
    [][\A m \in Managers :
          /\ AdviceModeKeepsSession(m)
          /\ (last'.m = m /\ last'.op = "tool_process_message"
              /\ ~in_agent_advice_mode[m]) =>
                (in_agent_advice_mode'[m] <=>
                     Contains(Lower(last'.text), K_agent_advice))]_vars

\* C36 amended: while a manager is in agent-advice mode, the classification
\* of a message of that manager, whatever keywords it contains, leaves the
\* manager's review session as it was and returns the advice intent, and the
\* mode ends only with a message that is exactly 'exit' (case-insensitive);
\* outside the mode it is entered by exactly the messages that hold no fetch
\* trigger ('fetch reviews', 'get reviews') and either contain 'agent advice'
\* or are 'agent_advice', and entering it writes nothing of the session.
C36_AdviceModeFrame ==
    [][\A m \in Managers :
          /\ AdviceModeKeepsSession(m)
          /\ (last'.m = m /\ last'.op = "tool_process_message"
              /\ ~in_agent_advice_mode[m]) =>
                /\ in_agent_advice_mode'[m] <=>
                      /\ ~HoldsFetchTrigger
                      /\ \/ Contains(Lower(last'.text), K_agent_advice)
                         \/ Lower(last'.text) = K_agent_advice_us
                /\ in_agent_advice_mode'[m] =>
                      /\ last'.intent = "COMMAND:AGENT_ADVICE"
                      /\ Session(m)' = Session(m)
                      /\ store' = store
                      /\ last_command' = last_command]_vars

\* 'Approve' classified in advice mode with a pending item at the cursor and
\* a feedback request open: the item is still pending, the cursor has not
\* moved, the request is still open and the mode is still on.
C36_Witness ==
    \E m \in Managers :
        /\ last.op = "tool_process_message" /\ last.m = m
        /\ last.text = T_APPROVE /\ last.intent = "AGENT_ADVICE"
        /\ in_agent_advice_mode[m]
        /\ review_states[m] = "initialized"
        /\ Cursor(m) < Len(Reviews(m))
        /\ Item(m, Cursor(m)).approval_status = "pending"
        /\ last_command[m] = "feedback"

\* C37: reviews whose rating is null are excluded before the analysis: no
\* null-rated item is in a batch given to the sentiment derivation or in the
\* queue of a session, and a null-rated review in the fetched set makes
\* neither the analysis nor the building of the queue fail.
C37_NullRatingsExcluded ==
    /\ last.op # "analyze_sentiment_error"
    /\ last.op \in {"filtered_reviews", "analyze_sentiment"} =>
          \A i \in 1..Len(last.filtered_reviews) :
              last.filtered_reviews[i].rating # NullRating
    /\ last.op = "queue" => ~last.raised
    /\ \A m \in Managers : \A i \in 1..Len(Reviews(m)) :
          Reviews(m)[i].rating # NullRating

\* C38: the periodic initial-message check never supersedes a review in
\* progress: for a manager whose lifecycle is initialized it sends nothing and
\* starts no ingestion, so queue, cursor, lifecycle and item records are as
\* they were; it sends the welcome and runs the ingestion only when the
\* lifecycle is absent or completed.
C38_InitialCheckSparesReview ==
    [][\A m \in Managers :
          (last'.op = "initial_check" /\ last'.m = m) =>
              /\ review_states[m] = "initialized" =>
                    /\ Session(m)' = Session(m)
                    /\ store' = store
                    /\ tasks' = tasks
                    /\ last'.out.kind = "none"
              /\ (\/ last'.out.kind # "none"
                  \/ tasks' # tasks
                  \/ Session(m)' # Session(m)
                  \/ store' # store) => review_states[m] \in {"none", "completed"}]_vars

\* The check ran for a manager in the middle of a review (first of two items
\* approved, cursor on the second, which is pending): nothing was sent.
C38_Witness ==
    \E m \in Managers :
        /\ last.op = "initial_check" /\ last.m = m
        /\ last.out.kind = "none"
        /\ review_states[m] = "initialized"
        /\ Len(Reviews(m)) = 2
        /\ Cursor(m) = 1
        /\ Item(m, 0).approval_status = "approved"
        /\ Item(m, 1).approval_status = "pending"
        /\ tasks[m] = EmptyBag

\* C39: the idle-reminder check sends a reminder to a manager only if that
\* manager's lifecycle is initialized and the manager has a session, never to
\* a manager with no session or a completed session, and it changes nothing of
\* the sessions or the ingestions in flight.
C39_ReminderOnlyWhenIdle ==
    [][\A m \in Managers :
          (last'.op = "inactive_check" /\ last'.m = m) =>
              /\ last'.out.kind \in {"reminder", "none"}
              /\ last'.out.kind = "reminder" =>
                    /\ review_states[m] = "initialized"
                    /\ HasSession(m)
              /\ (~HasSession(m) \/ review_states[m] = "completed") =>
                    last'.out.kind = "none"
              /\ UNCHANGED <<preloaded_reviews, store, review_data, current_indices,
                             review_states, last_command, in_agent_advice_mode,
                             active_sessions, tasks>>]_vars

\* The check passed over a manager whose session is completed (the queue the
\* ingestion wrote was empty and its last step set the lifecycle): nothing
\* was sent.
C39_Witness ==
    \E m \in Managers :
        /\ last.op = "inactive_check" /\ last.m = m
        /\ last.out.kind = "none" /\ ~last.raised
        /\ HasSession(m)
        /\ review_states[m] = "completed"
        /\ tasks[m] = EmptyBag

====
